---- MODULE Spec2Model ----
(***************************************************************************)
(* dapr-cert-transformer: a controller that watches one Secret (the Dapr  *)
(* trust bundle) and copies the certificate and the key stored under the  *)
(* source keys into the destination keys of the same Secret.              *)
(*                                                                         *)
(* The model covers main.go: the package-level configuration, the two     *)
(* predicates isDaprTrustBundleSecret and needsDaprTrustBundleSecretUpdate,*)
(* main step by step up to mgr.Start, the event filter installed in main,  *)
(* and DaprSecretReconciler.Reconcile split at its two remote calls        *)
(* (a.Get, a.Update).  The API server holds the Secret with a              *)
(* resourceVersion; other writers change it between the steps of a         *)
(* reconciliation.                                                         *)
(***************************************************************************)
EXTENDS Naturals, FiniteSets, Sequences, TLC

(***************************************************************************)
(* Bounds of the model.                                                    *)
(***************************************************************************)
\* Reconcile invocations that may be in flight at once.
NumWorkers == 2
\* Writes by other clients (cert-manager, an operator) in one behaviour.
MaxExternalWrites == 1
\* Resource-version bumps that leave the payload alone, in a single call.
MaxTouches == 1

Workers == 1..NumWorkers

(***************************************************************************)
(* Value domains.                                                          *)
(***************************************************************************)
Namespaces  == {"dapr-system", "default"}
SecretNames == {"dapr-trust-bundle", "other"}
\* client.ObjectKey / reconcile.Request.NamespacedName
Identities  == [Namespace : Namespaces, Name : SecretNames]

\* Names a key flag can take, in the order of their defaults (main.go:33-36).
KeyNameSeq == <<"tls.crt", "issuer.crt", "tls.key", "issuer.key">>
KeyNames   == {KeyNameSeq[n] : n \in 1..Len(KeyNameSeq)}
\* A field of the Secret that no flag names.
OtherField == "ca.crt"
Fields     == KeyNames \cup {OtherField}

\* Byte strings stored under a key; "" is the empty byte sequence.
Bytes == {"", "C1", "K1"}
\* What a map holds for a key it does not have.
Absent == "<absent>"

\* corev1.Secret.Data, a map[string][]byte: every field is either absent or
\* holds a byte string.  A nil map and an empty map are both all-absent.
Payloads ==
    {d \in [Fields -> Bytes \cup {Absent, "CA"}] :
        /\ d[OtherField] \in {Absent, "CA"}
        /\ \A k \in KeyNames : d[k] # "CA"}
EmptyData == [f \in Fields |-> Absent]

NoSecret == [exists |-> FALSE]
Secret(d, rv) == [exists |-> TRUE, Data |-> d, ResourceVersion |-> rv]

VARIABLES
    \* the process: main and what it leaves behind
    showVersion,  \* the -version flag (main.go:29, 41)
    podNamespace, \* the environment's POD_NAMESPACE, "" when it is not set
    mainPc,       \* where main is: "version", "namespace", "manager",
                  \* "controller", "start", "running" (inside mgr.Start), "exited"
    exitCode,     \* the status of os.Exit, or of main returning; read when exited
    mainErr,      \* main's variable err (main.go:84, 103)
    mainLog,      \* what main has logged: the error and the message of each entry
    watching,     \* the controller's watch on Secrets is established
    \* package-level configuration (main.go:31-36), as left by parseFlags and main
    daprTrustBundleNamespace, daprTrustBundleName,
    certSourceKey, certDestKey, keySourceKey, keyDestKey,
    \* the API server: the watched Secret, the last revision handed out, and
    \* the number of writes other clients made
    secret, revision, externalWrites,
    \* the controller's work queue: identities waiting for a Reconcile
    queue,
    \* one Reconcile invocation per worker
    pc,       \* where the invocation is
    req,      \* req.NamespacedName
    s,        \* the local *corev1.Secret
    err,      \* the error of the last remote call: "nil", "NotFound", "IOError", "Conflict"
    msg,      \* the last message it logged
    reads,    \* a.Get calls issued by the invocation
    writes,   \* a.Update calls issued by the invocation
    fetched   \* history: the Secret as a.Get returned it

config == <<daprTrustBundleNamespace, daprTrustBundleName,
            certSourceKey, certDestKey, keySourceKey, keyDestKey>>
process == <<showVersion, podNamespace, mainPc, exitCode, mainErr, mainLog, watching>>
server == <<secret, revision, externalWrites>>
local  == <<pc, req, s, err, msg, reads, writes, fetched>>
vars   == <<process, config, server, queue, local>>

(***************************************************************************)
(* Configuration.                                                          *)
(***************************************************************************)
Index(k) == CHOOSE n \in 1..Len(KeyNameSeq) : KeyNameSeq[n] = k
Max(a, b) == IF a >= b THEN a ELSE b

\* The values the four key flags can take (main.go:43-46), one for every way
\* the four flags can coincide: the reconciler only ever compares key names,
\* so a configuration is determined by which flags are equal.  The first is
\* the default, four distinct names.
KeyMappings ==
    {m \in [certSourceKey : KeyNames, certDestKey : KeyNames,
            keySourceKey : KeyNames, keyDestKey : KeyNames] :
        /\ Index(m.certSourceKey) = 1
        /\ Index(m.certDestKey) <= 2
        /\ Index(m.keySourceKey) <= Max(Index(m.certSourceKey), Index(m.certDestKey)) + 1
        /\ Index(m.keyDestKey) <=
              Max(Max(Index(m.certSourceKey), Index(m.certDestKey)), Index(m.keySourceKey)) + 1}

\* The default key names (main.go:33-36).
DefaultKeys ==
    [certSourceKey |-> "tls.crt", certDestKey |-> "issuer.crt",
     keySourceKey |-> "tls.key", keyDestKey |-> "issuer.key"]

\* A configuration whose key destination is the certificate source.
CrossedKeys == [DefaultKeys EXCEPT !.keyDestKey = "tls.crt"]

\* parseFlags: the values the flags leave in the package variables.  A started
\* controller (Init, InitCall) has a namespace that is not empty, the flag's or
\* POD_NAMESPACE's (main.go:75-82); a process at its first statement (InitMain)
\* has the flag's value, which may be empty.
parseFlags(namespaces, names, mappings) ==
    /\ daprTrustBundleNamespace \in namespaces
    /\ daprTrustBundleName \in names
    /\ \E m \in mappings :
          /\ certSourceKey = m.certSourceKey
          /\ certDestKey = m.certDestKey
          /\ keySourceKey = m.keySourceKey
          /\ keyDestKey = m.keyDestKey

KeysDistinct == Cardinality({certSourceKey, certDestKey, keySourceKey, keyDestKey}) = 4

WatchedIdentity == [Namespace |-> daprTrustBundleNamespace, Name |-> daprTrustBundleName]

(***************************************************************************)
(* The two predicates.                                                     *)
(***************************************************************************)
\* Mutant: either half of the identity is enough.
IsInNamespaceOrNamed(o) ==
    o.Namespace = daprTrustBundleNamespace \/ o.Name = daprTrustBundleName

\* Mutant: the namespace is not compared.
IsNamedLikeTrustBundle(o) ==
    o.Name = daprTrustBundleName

isDaprTrustBundleSecret(o) ==
    o.Namespace = daprTrustBundleNamespace /\ o.Name = daprTrustBundleName

\* v, ok := m[k]: ok says whether the key is there, and v is nil when it is
\* not; string(nil) is the empty string.
MapOk(m, k)    == m[k] # Absent
MapValue(m, k) == IF m[k] = Absent THEN "" ELSE m[k]

\* Mutant: only the source certificate is asked for.
NeedsUpdateWithCertOnly(sec) ==
    /\ MapOk(sec.Data, certSourceKey)
    /\ \/ MapValue(sec.Data, certSourceKey) # MapValue(sec.Data, certDestKey)
       \/ MapValue(sec.Data, keySourceKey) # MapValue(sec.Data, keyDestKey)

\* Mutant: a destination that is missing is not compared.
NeedsUpdateOfPresentDest(sec) ==
    /\ MapOk(sec.Data, certSourceKey)
    /\ MapOk(sec.Data, keySourceKey)
    /\ \/ /\ MapOk(sec.Data, certDestKey)
          /\ MapValue(sec.Data, certSourceKey) # MapValue(sec.Data, certDestKey)
       \/ /\ MapOk(sec.Data, keyDestKey)
          /\ MapValue(sec.Data, keySourceKey) # MapValue(sec.Data, keyDestKey)

\* Mutant: the ok flags are not asked for, only the bytes are compared.
NeedsUpdateOfDifferingBytes(sec) ==
    \/ MapValue(sec.Data, certSourceKey) # MapValue(sec.Data, certDestKey)
    \/ MapValue(sec.Data, keySourceKey) # MapValue(sec.Data, keyDestKey)

\* Mutant: the comparison is left out.
NeedsUpdateWheneverSourced(sec) ==
    MapOk(sec.Data, certSourceKey) /\ MapOk(sec.Data, keySourceKey)

needsDaprTrustBundleSecretUpdate(sec) ==
    LET tlsCrt    == MapValue(sec.Data, certSourceKey)
        tlsCrtOk  == MapOk(sec.Data, certSourceKey)
        tlsKey    == MapValue(sec.Data, keySourceKey)
        tlsKeyOk  == MapOk(sec.Data, keySourceKey)
        issuerCrt == MapValue(sec.Data, certDestKey)
        issuerKey == MapValue(sec.Data, keyDestKey)
    IN  tlsCrtOk /\ tlsKeyOk /\ (tlsCrt # issuerCrt \/ tlsKey # issuerKey)

\* m[k] = v
MapAssign(m, k, v) == [m EXCEPT ![k] = v]

\* Mutant: the second assignment is missing.
CopyCertOnly(data) ==
    MapAssign(data, certDestKey, MapValue(data, certSourceKey))

\* Mutant: the first assignment is missing.
CopyKeyOnly(data) ==
    MapAssign(data, keyDestKey, MapValue(data, keySourceKey))

\* Mutant: the pair is moved, not copied: the source entries are removed.
MoveSourceToDest(data) ==
    LET d1 == MapAssign(data, certDestKey, MapValue(data, certSourceKey))
        d2 == MapAssign(d1, keyDestKey, MapValue(d1, keySourceKey))
    IN  MapAssign(MapAssign(d2, certSourceKey, Absent), keySourceKey, Absent)

\* s.Data[certDestKey] = s.Data[certSourceKey]
\* s.Data[keyDestKey] = s.Data[keySourceKey]
\* one statement after the other: the second reads the map the first wrote.
CopySourceToDest(data) ==
    LET d1 == MapAssign(data, certDestKey, MapValue(data, certSourceKey))
    IN  MapAssign(d1, keyDestKey, MapValue(d1, keySourceKey))

(***************************************************************************)
(* The event filter of main.go:106-113.                                    *)
(***************************************************************************)
\* The kinds of event a source hands to a predicate.  For(&corev1.Secret{})
\* watches the kind and delivers the first three.
EventKinds    == {"create", "update", "delete", "generic"}
WatchedKinds  == {"create", "update", "delete"}

\* Mutant: predicate.GenerationChangedPredicate in its place; a Secret's
\* generation does not move, so no update is admitted.
GenerationChangedPredicate(kind, rvChanged) ==
    IF kind = "update" THEN FALSE ELSE TRUE

\* predicate.ResourceVersionChangedPredicate: only its Update is written out;
\* the others are those of the predicate.Funcs it embeds, which admit.
ResourceVersionChangedPredicate(kind, rvChanged) ==
    IF kind = "update" THEN rvChanged ELSE TRUE

\* predicate.Funcs{CreateFunc: ..., UpdateFunc: ...}: a kind whose function is
\* not set is admitted.
WatchedSecretFuncs(kind, obj) ==
    IF kind \in {"create", "update"} THEN isDaprTrustBundleSecret(obj) ELSE TRUE

\* predicate.And(...)
EventFilter(kind, obj, rvChanged) ==
    ResourceVersionChangedPredicate(kind, rvChanged) /\ WatchedSecretFuncs(kind, obj)

\* The controller's event handler: an admitted event puts the object's identity
\* on the work queue, which holds an identity at most once.
Enqueue(q, kind, obj, rvChanged) ==
    IF EventFilter(kind, obj, rvChanged) THEN q \cup {obj} ELSE q

(***************************************************************************)
(* The API server.                                                         *)
(***************************************************************************)
\* client.Get of the identity: the stored Secret, or an error.  Only the watched
\* Secret is held; io is whether the call got through.
GetError(key, io) ==
    IF ~io THEN "IOError"
    ELSE IF key # WatchedIdentity \/ ~secret.exists THEN "NotFound"
    ELSE "nil"

\* client.Update of obj: a full replacement, accepted only when the
\* resourceVersion obj carries is the stored one.
UpdateError(obj, io) ==
    IF ~io THEN "IOError"
    ELSE IF ~secret.exists THEN "NotFound"
    ELSE IF obj.ResourceVersion # secret.ResourceVersion THEN "Conflict"
    ELSE "nil"

\* The Secret an accepted update leaves: an update that changes nothing is not
\* written and keeps the resourceVersion.
Updated(obj) ==
    IF obj.Data = secret.Data THEN secret ELSE Secret(obj.Data, revision + 1)

(***************************************************************************)
(* DaprSecretReconciler.Reconcile, one invocation per worker.              *)
(***************************************************************************)
NoRequest   == [Namespace |-> "", Name |-> ""]
EmptySecret == Secret(EmptyData, 0)

\* What an invocation logs.
LogSkip       == "Avoid reconciling other secret"
LogGetFailed  == "Failed to get secret"
LogUpToDate   == "Already up-to-date"
LogUpdFailed  == "Failed to update secret"
LogSuccess    == "Successful reconciliation"

\* The controller takes an identity off the queue and calls Reconcile with it.
Dispatch(w) ==
    /\ pc[w] = "idle"
    /\ \E r \in queue :
          /\ queue' = queue \ {r}
          /\ req' = [req EXCEPT ![w] = r]
    /\ pc' = [pc EXCEPT ![w] = "begin"]
    /\ UNCHANGED <<process, config, server, s, err, msg, reads, writes, fetched>>

\* Mutant: the reconciler takes the name of the last request as the one to
\* watch.
BeginAdoptingName(w) ==
    /\ pc[w] = "begin"
    /\ daprTrustBundleName' = req[w].Name
    /\ pc' = [pc EXCEPT ![w] = "get"]
    /\ UNCHANGED <<daprTrustBundleNamespace, certSourceKey, certDestKey, keySourceKey, keyDestKey>>
    /\ UNCHANGED <<process, server, queue, req, s, err, msg, reads, writes, fetched>>

\* main.go:127-134
Begin(w) ==
    /\ pc[w] = "begin"
    /\ IF ~isDaprTrustBundleSecret(req[w])
          THEN /\ msg' = [msg EXCEPT ![w] = LogSkip]
               /\ pc' = [pc EXCEPT ![w] = "done"]
          ELSE /\ pc' = [pc EXCEPT ![w] = "get"]
               /\ UNCHANGED msg
    /\ UNCHANGED <<process, config, server, queue, req, s, err, reads, writes, fetched>>

\* Mutant: a failed fetch is logged and the call goes on with the empty Secret.
GetIgnoringError(w) ==
    /\ pc[w] = "get"
    /\ reads' = [reads EXCEPT ![w] = @ + 1]
    /\ \E io \in BOOLEAN :
          LET e == GetError(req[w], io)
          IN  /\ err' = [err EXCEPT ![w] = "nil"]
              /\ IF e # "nil"
                    THEN /\ msg' = [msg EXCEPT ![w] = LogGetFailed]
                         /\ UNCHANGED <<s, fetched>>
                    ELSE /\ s' = [s EXCEPT ![w] = secret]
                         /\ fetched' = [fetched EXCEPT ![w] = secret]
                         /\ UNCHANGED msg
    /\ pc' = [pc EXCEPT ![w] = "check"]
    /\ UNCHANGED <<process, config, server, queue, req, writes>>

\* main.go:136-141.  fetched keeps what a.Get returned: the Secret and the
\* resourceVersion it had; whatever is written to the store after this step
\* is not seen by the invocation.
Get(w) ==
    /\ pc[w] = "get"
    /\ reads' = [reads EXCEPT ![w] = @ + 1]
    /\ \E io \in BOOLEAN :
          LET e == GetError(req[w], io)
          IN  /\ err' = [err EXCEPT ![w] = e]
              /\ IF e # "nil"
                    THEN /\ msg' = [msg EXCEPT ![w] = LogGetFailed]
                         /\ pc' = [pc EXCEPT ![w] = "done"]
                         /\ UNCHANGED <<s, fetched>>
                    ELSE /\ s' = [s EXCEPT ![w] = secret]
                         /\ fetched' = [fetched EXCEPT ![w] = secret]
                         /\ pc' = [pc EXCEPT ![w] = "check"]
                         /\ UNCHANGED msg
    /\ UNCHANGED <<process, config, server, queue, req, writes>>

\* main.go:143-149
Check(w) ==
    /\ pc[w] = "check"
    /\ IF ~needsDaprTrustBundleSecretUpdate(s[w])
          THEN /\ msg' = [msg EXCEPT ![w] = LogUpToDate]
               /\ pc' = [pc EXCEPT ![w] = "done"]
               /\ UNCHANGED s
          ELSE /\ s' = [s EXCEPT ![w].Data = CopySourceToDest(@)]
               /\ pc' = [pc EXCEPT ![w] = "update"]
               /\ UNCHANGED msg
    /\ UNCHANGED <<process, config, server, queue, req, err, reads, writes, fetched>>

\* err = a.Update(ctx, obj) and what follows it (main.go:151-158).  An accepted
\* update that changed the Secret comes back to the controller as an update
\* event.
Submit(w, obj) ==
    /\ pc[w] = "update"
    /\ writes' = [writes EXCEPT ![w] = @ + 1]
    /\ \E io \in BOOLEAN :
          LET e == UpdateError(obj, io)
          IN  /\ err' = [err EXCEPT ![w] = e]
              /\ IF e # "nil"
                    THEN /\ msg' = [msg EXCEPT ![w] = LogUpdFailed]
                         /\ UNCHANGED <<secret, revision, queue>>
                    ELSE /\ secret' = Updated(obj)
                         /\ revision' = IF secret' = secret THEN revision ELSE revision + 1
                         /\ queue' = Enqueue(queue, "update", WatchedIdentity,
                                              secret'.ResourceVersion # secret.ResourceVersion)
                         /\ msg' = [msg EXCEPT ![w] = LogSuccess]
    /\ pc' = [pc EXCEPT ![w] = "done"]
    /\ UNCHANGED <<process, config, externalWrites, req, s, reads, fetched>>

\* Mutant: the object is sent with whatever resourceVersion is stored now.
UpdateLatest(w) ==
    Submit(w, [s[w] EXCEPT !.ResourceVersion =
                  IF secret.exists THEN secret.ResourceVersion ELSE @])

\* Mutant: a conflict is taken for success, on the ground that the event of the
\* conflicting write will bring the Secret back.
UpdateIgnoringConflict(w) ==
    /\ pc[w] = "update"
    /\ writes' = [writes EXCEPT ![w] = @ + 1]
    /\ \E io \in BOOLEAN :
          LET e == UpdateError(s[w], io)
          IN  IF e \in {"IOError", "NotFound"}
                THEN /\ err' = [err EXCEPT ![w] = e]
                     /\ msg' = [msg EXCEPT ![w] = LogUpdFailed]
                     /\ UNCHANGED <<secret, revision, queue>>
                ELSE /\ err' = [err EXCEPT ![w] = "nil"]
                     /\ msg' = [msg EXCEPT ![w] = LogSuccess]
                     /\ IF e = "Conflict"
                           THEN UNCHANGED <<secret, revision, queue>>
                           ELSE /\ secret' = Updated(s[w])
                                /\ revision' = IF secret' = secret THEN revision ELSE revision + 1
                                /\ queue' = Enqueue(queue, "update", WatchedIdentity,
                                                     secret'.ResourceVersion # secret.ResourceVersion)
    /\ pc' = [pc EXCEPT ![w] = "done"]
    /\ UNCHANGED <<process, config, externalWrites, req, s, reads, fetched>>

\* Mutant: the destinations are written one update at a time; this is the
\* first, with the certificate alone.
UpdateCertFirst(w) ==
    Submit(w, [fetched[w] EXCEPT !.Data =
                  MapAssign(@, certDestKey, MapValue(@, certSourceKey))])

\* Mutant: the error of the update is dropped and the call reports success.
UpdateDroppingError(w) ==
    /\ pc[w] = "update"
    /\ writes' = [writes EXCEPT ![w] = @ + 1]
    /\ \E io \in BOOLEAN :
          LET e == UpdateError(s[w], io)
          IN  IF e # "nil"
                THEN UNCHANGED <<secret, revision, queue>>
                ELSE /\ secret' = Updated(s[w])
                     /\ revision' = IF secret' = secret THEN revision ELSE revision + 1
                     /\ queue' = Enqueue(queue, "update", WatchedIdentity,
                                          secret'.ResourceVersion # secret.ResourceVersion)
    /\ err' = [err EXCEPT ![w] = "nil"]
    /\ msg' = [msg EXCEPT ![w] = LogSuccess]
    /\ pc' = [pc EXCEPT ![w] = "done"]
    /\ UNCHANGED <<process, config, externalWrites, req, s, reads, fetched>>

\* main.go:151-158: the Secret is sent as it was read, resourceVersion included,
\* with the two destination fields assigned.
Update(w) ==
    Submit(w, s[w])

\* What Reconcile returns: the error, or nil.
Failed(w) == err[w] # "nil"

\* Reconcile has returned; the controller puts the identity of a failed
\* invocation back on the queue.
Return(w) ==
    /\ pc[w] = "done"
    /\ queue' = IF Failed(w) THEN queue \cup {req[w]} ELSE queue
    /\ pc' = [pc EXCEPT ![w] = "idle"]
    /\ req' = [req EXCEPT ![w] = NoRequest]
    /\ s' = [s EXCEPT ![w] = EmptySecret]
    /\ err' = [err EXCEPT ![w] = "nil"]
    /\ msg' = [msg EXCEPT ![w] = ""]
    /\ reads' = [reads EXCEPT ![w] = 0]
    /\ writes' = [writes EXCEPT ![w] = 0]
    /\ fetched' = [fetched EXCEPT ![w] = NoSecret]
    /\ UNCHANGED <<process, config, server>>

(***************************************************************************)
(* The other clients of the API server, and the events they cause.         *)
(***************************************************************************)
\* What cert-manager leaves before the controller has run: the certificate and
\* the key under the default source keys.
IssuedData ==
    [f \in Fields |->
        IF f = "tls.crt" THEN "C1"
        ELSE IF f = "tls.key" THEN "K1"
        ELSE IF f = OtherField THEN "CA"
        ELSE Absent]

\* Another client sets or removes one field of the Secret.
ExternalWrite(k, v) ==
    /\ externalWrites < MaxExternalWrites
    /\ secret.exists
    /\ secret.Data[k] # v
    /\ secret' = Secret(MapAssign(secret.Data, k, v), revision + 1)
    /\ revision' = revision + 1
    /\ externalWrites' = externalWrites + 1
    /\ queue' = Enqueue(queue, "update", WatchedIdentity, TRUE)
    /\ UNCHANGED <<process, config, local>>

\* cert-manager, or an operator, rewrites or removes a source field.
SourceWrite ==
    \E k \in {certSourceKey, keySourceKey}, v \in Bytes \cup {Absent} : ExternalWrite(k, v)

\* Another client deletes the Secret.
ExternalDelete ==
    /\ externalWrites < MaxExternalWrites
    /\ secret.exists
    /\ secret' = NoSecret
    /\ revision' = revision + 1
    /\ externalWrites' = externalWrites + 1
    /\ queue' = Enqueue(queue, "delete", WatchedIdentity, TRUE)
    /\ UNCHANGED <<process, config, local>>

\* Another client creates the Secret.
ExternalCreate ==
    /\ externalWrites < MaxExternalWrites
    /\ ~secret.exists
    /\ secret' = Secret(IssuedData, revision + 1)
    /\ revision' = revision + 1
    /\ externalWrites' = externalWrites + 1
    /\ queue' = Enqueue(queue, "create", WatchedIdentity, TRUE)
    /\ UNCHANGED <<process, config, local>>

\* An event for another Secret of the watched namespace (manager.Options.Namespace,
\* main.go:84, keeps the cache to that namespace).
OtherSecretEvent(kind, name, rvChanged) ==
    /\ name # daprTrustBundleName
    /\ queue' = Enqueue(queue, kind,
                        [Namespace |-> daprTrustBundleNamespace, Name |-> name], rvChanged)
    /\ UNCHANGED <<process, config, server, local>>

(***************************************************************************)
(* main, one action per step that can end the process or fail.             *)
(***************************************************************************)
\* log.Error(err, msg)
LogEntry(e, m) == [err |-> e, msg |-> m]
LogNoNamespace ==
    LogEntry("Missing POD_NAMESPACE environment variable",
             "could not identify namespace to watch")
LogNoManager == LogEntry("ManagerError", "could not create manager")
LogNoStart   == LogEntry("StartError", "could not start manager")

\* os.Exit(code)
Exit(code) ==
    /\ mainPc' = "exited"
    /\ exitCode' = code

\* main.go:66-69
ShowVersion ==
    /\ mainPc = "version"
    /\ IF showVersion
          THEN Exit(0)
          ELSE /\ mainPc' = "namespace"
               /\ UNCHANGED exitCode
    /\ UNCHANGED <<showVersion, podNamespace, mainErr, mainLog, watching>>
    /\ UNCHANGED <<config, server, queue, local>>

\* Mutant: without a namespace the error is logged and main goes on.
ResolveNamespaceWithoutExit ==
    /\ mainPc = "namespace"
    /\ IF daprTrustBundleNamespace = ""
          THEN IF podNamespace = ""
                 THEN /\ mainLog' = mainLog \cup {LogNoNamespace}
                      /\ UNCHANGED daprTrustBundleNamespace
                 ELSE /\ daprTrustBundleNamespace' = podNamespace
                      /\ UNCHANGED mainLog
          ELSE UNCHANGED <<daprTrustBundleNamespace, mainLog>>
    /\ mainPc' = "manager"
    /\ UNCHANGED <<showVersion, podNamespace, exitCode, mainErr, watching>>
    /\ UNCHANGED <<daprTrustBundleName, certSourceKey, certDestKey, keySourceKey, keyDestKey>>
    /\ UNCHANGED <<server, queue, local>>

\* main.go:75-82
ResolveNamespace ==
    /\ mainPc = "namespace"
    /\ IF daprTrustBundleNamespace = ""
          THEN IF podNamespace = ""
                 THEN /\ mainLog' = mainLog \cup {LogNoNamespace}
                      /\ Exit(1)
                      /\ UNCHANGED daprTrustBundleNamespace
                 ELSE /\ daprTrustBundleNamespace' = podNamespace
                      /\ mainPc' = "manager"
                      /\ UNCHANGED <<exitCode, mainLog>>
          ELSE /\ mainPc' = "manager"
               /\ UNCHANGED <<daprTrustBundleNamespace, exitCode, mainLog>>
    /\ UNCHANGED <<showVersion, podNamespace, mainErr, watching>>
    /\ UNCHANGED <<daprTrustBundleName, certSourceKey, certDestKey, keySourceKey, keyDestKey>>
    /\ UNCHANGED <<server, queue, local>>

\* main.go:84-100.  The two health checks are added to a manager that has not
\* started and touch nothing of the model.
NewManager ==
    /\ mainPc = "manager"
    /\ \E e \in {"nil", "ManagerError"} :
          /\ mainErr' = e
          /\ IF e # "nil"
                THEN /\ mainLog' = mainLog \cup {LogNoManager}
                     /\ Exit(1)
                ELSE /\ mainPc' = "controller"
                     /\ UNCHANGED <<exitCode, mainLog>>
    /\ UNCHANGED <<showVersion, podNamespace, watching>>
    /\ UNCHANGED <<config, server, queue, local>>

\* main.go:103-114: err = builder. ... .Complete(&DaprSecretReconciler{}).
\* The result is assigned to err and main goes on to the next statement.
CompleteController ==
    /\ mainPc = "controller"
    /\ \E e \in {"nil", "ControllerError"} : mainErr' = e
    /\ mainPc' = "start"
    /\ UNCHANGED <<showVersion, podNamespace, exitCode, mainLog, watching>>
    /\ UNCHANGED <<config, server, queue, local>>

\* main.go:116-119, up to the point where mgr.Start runs the controllers.  Its
\* err is a variable of the if statement, not main's.  The controller is there
\* to be run only when Complete added it; its informer's first list comes as
\* create events.
StartManager ==
    /\ mainPc = "start"
    /\ \E e \in {"nil", "StartError"} :
          IF e # "nil"
            THEN /\ mainLog' = mainLog \cup {LogNoStart}
                 /\ Exit(1)
                 /\ UNCHANGED <<watching, queue>>
            ELSE /\ mainPc' = "running"
                 /\ watching' = (mainErr = "nil")
                 /\ queue' = IF mainErr = "nil" /\ secret.exists
                                THEN Enqueue({}, "create", WatchedIdentity, TRUE)
                                ELSE {}
                 /\ UNCHANGED <<exitCode, mainLog>>
    /\ UNCHANGED <<showVersion, podNamespace, mainErr>>
    /\ UNCHANGED <<config, server, local>>

\* main.go:116-120: the signal handler's context is cancelled, mgr.Start
\* returns nil and main returns.  A Reconcile in flight is abandoned where it is.
Shutdown ==
    /\ mainPc = "running"
    /\ Exit(0)
    /\ watching' = FALSE
    /\ UNCHANGED <<showVersion, podNamespace, mainErr, mainLog>>
    /\ UNCHANGED <<config, server, queue, local>>

(***************************************************************************)
(* The running controller.                                                 *)
(***************************************************************************)
\* main is inside mgr.Start: the namespace came from the flag, every setup
\* step succeeded and the watch is established.
Started ==
    /\ showVersion = FALSE
    /\ podNamespace = ""
    /\ mainPc = "running"
    /\ exitCode = 0
    /\ mainErr = "nil"
    /\ mainLog = {}
    /\ watching = TRUE

IdleWorkers ==
    /\ pc = [w \in Workers |-> "idle"]
    /\ req = [w \in Workers |-> NoRequest]
    /\ s = [w \in Workers |-> EmptySecret]
    /\ err = [w \in Workers |-> "nil"]
    /\ msg = [w \in Workers |-> ""]
    /\ reads = [w \in Workers |-> 0]
    /\ writes = [w \in Workers |-> 0]
    /\ fetched = [w \in Workers |-> NoSecret]

\* The manager has started: the informer's initial list comes as create events.
\* The controller runs with the default identity and with either the default
\* key names or a pair of coinciding ones; the workers are the Reconcile
\* invocations in flight, in this process or in another replica.
Init ==
    /\ Started
    /\ parseFlags({"dapr-system"}, {"dapr-trust-bundle"}, {DefaultKeys, CrossedKeys})
    /\ secret \in {NoSecret, Secret(IssuedData, 1)}
    /\ revision = 1
    /\ externalWrites = 0
    /\ queue = IF secret.exists THEN Enqueue({}, "create", WatchedIdentity, TRUE) ELSE {}
    /\ IdleWorkers

Next ==
    \/ \E w \in Workers : Dispatch(w)
    \/ \E w \in Workers : Begin(w)
    \/ \E w \in Workers : Get(w)
    \/ \E w \in Workers : Check(w)
    \/ \E w \in Workers : Update(w)
    \/ \E w \in Workers : Return(w)
    \/ SourceWrite
    \/ ExternalDelete
    \/ ExternalCreate

Spec == Init /\ [][Next]_vars

\* The controller together with the other Secrets of its namespace.
NextWatch ==
    \/ Next
    \/ \E kind \in WatchedKinds, name \in SecretNames, rvChanged \in BOOLEAN :
          OtherSecretEvent(kind, name, rvChanged)

SpecWatch == Init /\ [][NextWatch]_vars

(***************************************************************************)
(* Reconcile called on any request, any stored Secret and any              *)
(* configuration, by a single worker.                                      *)
(***************************************************************************)
\* Another client changes the Secret's metadata: the payload stays, the
\* resourceVersion moves.
Touch ==
    /\ externalWrites < MaxTouches
    /\ secret.exists
    /\ secret' = Secret(secret.Data, revision + 1)
    /\ revision' = revision + 1
    /\ externalWrites' = externalWrites + 1
    /\ UNCHANGED <<process, config, queue, local>>

InitCall ==
    /\ Started
    /\ parseFlags(Namespaces, SecretNames, KeyMappings)
    /\ secret \in {NoSecret} \cup {Secret(d, 1) : d \in Payloads}
    /\ revision = 1
    /\ externalWrites = 0
    /\ queue = {}
    /\ pc = [w \in Workers |-> IF w = 1 THEN "begin" ELSE "idle"]
    /\ \E r \in Identities : req = [w \in Workers |-> IF w = 1 THEN r ELSE NoRequest]
    /\ s = [w \in Workers |-> EmptySecret]
    /\ err = [w \in Workers |-> "nil"]
    /\ msg = [w \in Workers |-> ""]
    /\ reads = [w \in Workers |-> 0]
    /\ writes = [w \in Workers |-> 0]
    /\ fetched = [w \in Workers |-> NoSecret]

\* The call, and the calls the controller goes on to make for what the first
\* one queued: its own update's event, or its failure.
NextCall ==
    \/ Dispatch(1)
    \/ Return(1)
    \/ Begin(1)
    \/ Get(1)
    \/ Check(1)
    \/ Update(1)
    \/ Touch

SpecCall == InitCall /\ [][NextCall]_vars

(***************************************************************************)
(* The process from its first statement: main, then the controller with    *)
(* its one worker (MaxConcurrentReconciles is left at its default), the    *)
(* other clients of the API server and the other Secrets of the namespace. *)
(***************************************************************************)
InitMain ==
    /\ showVersion \in BOOLEAN
    /\ podNamespace \in {"", "dapr-system"}
    /\ mainPc = "version"
    /\ exitCode = 0
    /\ mainErr = "nil"
    /\ mainLog = {}
    /\ watching = FALSE
    /\ parseFlags({"", "dapr-system"}, {"dapr-trust-bundle"}, {DefaultKeys, CrossedKeys})
    /\ secret \in {NoSecret, Secret(IssuedData, 1)}
    /\ revision = 1
    /\ externalWrites = 0
    /\ queue = {}
    /\ IdleWorkers

\* The steps of main, in program order.
MainStep ==
    \/ ShowVersion
    \/ ResolveNamespace
    \/ NewManager
    \/ CompleteController
    \/ StartManager

\* The steps of the controller's worker.
WorkerStep ==
    \/ Dispatch(1)
    \/ Begin(1)
    \/ Get(1)
    \/ Check(1)
    \/ Update(1)
    \/ Return(1)

\* What the watch delivers.
WatchStep ==
    \/ SourceWrite
    \/ ExternalDelete
    \/ ExternalCreate
    \/ \E kind \in WatchedKinds, name \in SecretNames, rvChanged \in BOOLEAN :
          OtherSecretEvent(kind, name, rvChanged)

NextMain ==
    \/ MainStep
    \/ Shutdown
    \/ watching /\ WorkerStep
    \/ watching /\ WatchStep

SpecMain == InitMain /\ [][NextMain]_vars

\* The work queue hands out the identities in the order they came in, so the
\* watched one is not passed over for ever.
DispatchWatched == Dispatch(1) /\ req'[1] = WatchedIdentity

\* main runs on until it exits or blocks in mgr.Start, and the worker runs
\* while the manager does.
FairSpecMain ==
    /\ SpecMain
    /\ WF_vars(MainStep)
    /\ WF_vars(watching /\ WorkerStep)
    /\ SF_vars(watching /\ DispatchWatched)

(***************************************************************************)
(* Vocabulary of the properties.  fetched[w] is the Secret the invocation  *)
(* read; the properties compare map entries directly.                      *)
(***************************************************************************)
Called(w)    == pc[w] # "idle"
Returned(w)  == pc[w] = "done"
\* The invocation read the Secret and has decided whether to update it.
Decided(w)   == fetched[w].exists /\ pc[w] \in {"update", "done"}
\* ... and decided to: it went on to the assignments and the update.
WentOnToUpdate(w) == pc[w] = "update" \/ writes[w] > 0

SourcesPresent(d) == d[certSourceKey] # Absent /\ d[keySourceKey] # Absent
DestsPresent(d)   == d[certDestKey] # Absent /\ d[keyDestKey] # Absent
\* The bytes under a key, the empty sequence when there are none.
BytesAt(d, k)     == IF d[k] \in Bytes THEN d[k] ELSE ""
CertDiffers(d)    == BytesAt(d, certDestKey) # BytesAt(d, certSourceKey)
KeyDiffers(d)     == BytesAt(d, keyDestKey) # BytesAt(d, keySourceKey)

\* C1: with four distinct key names, a call for the watched Secret that read
\* both source fields, found a destination field different from its source and
\* whose update was not rejected has issued exactly one write, and the stored
\* Secret holds the certificate read under the destination certificate key and
\* the key read under the destination key key.
C1_CopiesThePair ==
    \A w \in Workers :
        ( /\ KeysDistinct
          /\ Returned(w)
          /\ req[w] = WatchedIdentity
          /\ fetched[w].exists
          /\ SourcesPresent(fetched[w].Data)
          /\ CertDiffers(fetched[w].Data) \/ KeyDiffers(fetched[w].Data)
          /\ msg[w] # LogUpdFailed )
        => /\ writes[w] = 1
           /\ ~Failed(w)
           /\ secret.exists
           /\ secret.Data[certDestKey] = fetched[w].Data[certSourceKey]
           /\ secret.Data[keyDestKey] = fetched[w].Data[keySourceKey]

\* C1 witness: only the key had diverged, and both destinations hold the
\* source values after the one write.
C1_Witness ==
    \E w \in Workers :
        /\ KeysDistinct
        /\ Returned(w)
        /\ msg[w] = LogSuccess
        /\ writes[w] = 1
        /\ SourcesPresent(fetched[w].Data)
        /\ ~CertDiffers(fetched[w].Data)
        /\ KeyDiffers(fetched[w].Data)
        /\ fetched[w].Data[keySourceKey] = "K1"
        /\ secret.Data[keyDestKey] = "K1"
        /\ secret.Data[certDestKey] = fetched[w].Data[certSourceKey]

\* The destination pair holds the bytes of the source pair.
InSync(d) == ~CertDiffers(d) /\ ~KeyDiffers(d)

\* C2: a call that read a Secret whose destination pair equals its source pair
\* issues no write and returns success.
C2_SyncedIsLeftAlone ==
    \A w \in Workers :
        (Returned(w) /\ fetched[w].exists /\ InSync(fetched[w].Data))
        => /\ writes[w] = 0
           /\ ~Failed(w)
           /\ msg[w] = LogUpToDate

\* C2 witness: the call that follows a successful reconciliation, with no other
\* write in between, has read the Secret that reconciliation wrote and has
\* returned without writing.
C2_Witness ==
    \E w \in Workers :
        /\ KeysDistinct
        /\ Returned(w)
        /\ externalWrites = 0
        /\ revision = 2
        /\ fetched[w] = secret
        /\ SourcesPresent(secret.Data)
        /\ secret.Data[certDestKey] = "C1"
        /\ secret.Data[keyDestKey] = "K1"
        /\ writes[w] = 0
        /\ msg[w] = LogUpToDate

\* C3: a call for any identity other than the configured one issues no read and
\* no write, and returns success at once.
C3_OtherIdentityUntouched ==
    \A w \in Workers :
        (Called(w) /\ req[w] # WatchedIdentity)
        => /\ reads[w] = 0
           /\ writes[w] = 0
           /\ ~Failed(w)
           /\ pc[w] \in {"begin", "done"}
           /\ fetched[w] = NoSecret

\* C3 witness: a call for a Secret of the same name in another namespace has
\* returned, while the watched Secret exists.
C3_Witness ==
    \E w \in Workers :
        /\ Returned(w)
        /\ req[w].Name = daprTrustBundleName
        /\ req[w].Namespace # daprTrustBundleNamespace
        /\ secret.exists
        /\ msg[w] = LogSkip
        /\ reads[w] = 0

\* C10: a call whose fetch failed returns the failure after that one read and
\* issues no write.
C10_FetchFailureIsReturned ==
    \A w \in Workers :
        (Returned(w) /\ reads[w] > 0 /\ ~fetched[w].exists)
        => /\ Failed(w)
           /\ reads[w] = 1
           /\ writes[w] = 0

\* C10 witness: the Secret is there, the read did not get through.
C10_Witness ==
    \E w \in Workers :
        /\ Returned(w)
        /\ secret.exists
        /\ err[w] = "IOError"
        /\ reads[w] = 1
        /\ writes[w] = 0
        /\ ~fetched[w].exists

\* C6: on a Secret with both destination fields, the call goes on to update
\* exactly when both source fields are there and a destination entry is not
\* its source entry; on a Secret without one of the source fields it never does.
C6_NeedsUpdateDecides ==
    \A w \in Workers :
        Decided(w) =>
            LET d == fetched[w].Data
            IN  /\ DestsPresent(d) =>
                      (WentOnToUpdate(w) <=>
                          /\ SourcesPresent(d)
                          /\ \/ d[certDestKey] # d[certSourceKey]
                             \/ d[keyDestKey] # d[keySourceKey])
                /\ ~SourcesPresent(d) => ~WentOnToUpdate(w)

\* C6 witness: both destinations are there, the certificate one empty, and the
\* call is about to update.
C6_Witness ==
    \E w \in Workers :
        /\ Decided(w)
        /\ DestsPresent(fetched[w].Data)
        /\ SourcesPresent(fetched[w].Data)
        /\ fetched[w].Data[certDestKey] = ""
        /\ fetched[w].Data[certSourceKey] = "C1"
        /\ fetched[w].Data[keyDestKey] = fetched[w].Data[keySourceKey]
        /\ pc[w] = "update"

\* Some destination field is missing.
DestMissing(d) == d[certDestKey] = Absent \/ d[keyDestKey] = Absent

\* C7 as stated, under the default key names: on a Secret with both source
\* fields, whatever their bytes, and a missing destination field, the call goes
\* on to update.
C7_MissingDestAlwaysUpdates ==
    \A w \in Workers :
        ( /\ KeysDistinct
          /\ Decided(w)
          /\ SourcesPresent(fetched[w].Data)
          /\ DestMissing(fetched[w].Data) )
        => WentOnToUpdate(w)

\* C7 amended: on a Secret with both source fields and a missing destination
\* field whose source field is not empty, the call goes on to update.
C7_MissingDestOfNonEmptySourceUpdates ==
    \A w \in Workers :
        LET d == fetched[w].Data
        IN  ( /\ Decided(w)
              /\ SourcesPresent(d)
              /\ \/ d[certDestKey] = Absent /\ d[certSourceKey] # ""
                 \/ d[keyDestKey] = Absent /\ d[keySourceKey] # "" )
            => WentOnToUpdate(w)

\* C7 witness: the destination key is missing, its source is not empty, the
\* certificate pair agrees, and the call is about to update.
C7_Witness ==
    \E w \in Workers :
        /\ Decided(w)
        /\ SourcesPresent(fetched[w].Data)
        /\ fetched[w].Data[keyDestKey] = Absent
        /\ fetched[w].Data[keySourceKey] = "K1"
        /\ fetched[w].Data[certDestKey] = fetched[w].Data[certSourceKey]
        /\ pc[w] = "update"

\* C9: a call gets past the identity check exactly when the namespace of its
\* request is the configured namespace and its name is the configured name.
C9_ExactPairOnly ==
    \A w \in Workers :
        pc[w] \notin {"idle", "begin"} =>
            (msg[w] # LogSkip <=>
                /\ req[w].Namespace = daprTrustBundleNamespace
                /\ req[w].Name = daprTrustBundleName)

\* C9 witness: a request for another name in the configured namespace was
\* turned away.
C9_Witness ==
    \E w \in Workers :
        /\ Returned(w)
        /\ req[w].Namespace = daprTrustBundleNamespace
        /\ req[w].Name # daprTrustBundleName
        /\ msg[w] = LogSkip

\* The step in which worker w's update call returns.
UpdateReturns(w) == pc[w] = "update" /\ pc'[w] = "done"
\* The stored Secret is no longer the version w read.
VersionMoved(w) ==
    ~secret.exists \/ secret.ResourceVersion # fetched[w].ResourceVersion

\* C4: when the stored version is no longer the one the call read, its update
\* leaves the stored Secret exactly as it is and the call returns a failure.
C4_StaleUpdateIsRejected ==
    [][\A w \in Workers :
          (UpdateReturns(w) /\ VersionMoved(w))
          => /\ secret' = secret
             /\ err'[w] # "nil"
             /\ msg'[w] = LogUpdFailed]_vars

\* C4 witness: the call wrote once, was refused for the version, and the stored
\* Secret is a later version than the one it read.
C4_Witness ==
    \E w \in Workers :
        /\ Returned(w)
        /\ writes[w] = 1
        /\ err[w] = "Conflict"
        /\ secret.exists
        /\ secret.ResourceVersion > fetched[w].ResourceVersion
        /\ secret.Data # s[w].Data

\* A write of worker w is accepted only on the very Secret w read.
AcceptedOnlyOnVersionRead(w) ==
    (UpdateReturns(w) /\ err'[w] = "nil") => secret = fetched[w]
\* After an accepted write of worker w the stored destination pair is the
\* stored source pair.
AcceptedLeavesInSync(w) ==
    (UpdateReturns(w) /\ err'[w] = "nil")
    => /\ secret'.exists
       /\ SourcesPresent(secret'.Data)
       /\ secret'.Data[certDestKey] = secret'.Data[certSourceKey]
       /\ secret'.Data[keyDestKey] = secret'.Data[keySourceKey]

\* C5 as stated: in every interleaving of the workers and the other writers, a
\* write is accepted only against the version its call read, and right after
\* every accepted write the stored destination pair equals the stored source
\* pair.
C5_SafeUnderInterleaving ==
    [][\A w \in Workers :
          AcceptedOnlyOnVersionRead(w) /\ AcceptedLeavesInSync(w)]_vars

\* C5 amended: the same, for four pairwise distinct key names.
C5_SafeUnderInterleavingDistinctKeys ==
    [][\A w \in Workers :
          /\ AcceptedOnlyOnVersionRead(w)
          /\ KeysDistinct => AcceptedLeavesInSync(w)]_vars

\* C5 witness: two calls read the same version; one wrote it, the other was
\* refused, and another client has written too.
C5_Witness ==
    \E v, w \in Workers :
        /\ v # w
        /\ KeysDistinct
        /\ Returned(v) /\ Returned(w)
        /\ fetched[v].exists /\ fetched[v] = fetched[w]
        /\ msg[v] = LogSuccess
        /\ err[w] = "Conflict"
        /\ externalWrites > 0

\* C8 as stated: nothing but the watched Secret is ever scheduled: every
\* identity on the queue, and every identity Reconcile is called with, is the
\* configured one.
C8_OnlyWatchedIsScheduled ==
    /\ \A r \in queue : r = WatchedIdentity
    /\ \A w \in Workers : Called(w) => req[w] = WatchedIdentity


\* The call has made its two assignments: it is about to send the payload, or
\* has sent it.
Assigned(w) == fetched[w].exists /\ WentOnToUpdate(w)

\* C15: with four pairwise distinct key names, the payload a call submits holds,
\* under the source certificate key, under the source key key and under every
\* field that is not one of the two destination keys, exactly what was read.
C15_WriteChangesOnlyDestinations ==
    \A w \in Workers :
        (KeysDistinct /\ Assigned(w))
        => /\ s[w].Data[certSourceKey] = fetched[w].Data[certSourceKey]
           /\ s[w].Data[keySourceKey] = fetched[w].Data[keySourceKey]
           /\ \A f \in Fields \ {certDestKey, keyDestKey} :
                  s[w].Data[f] = fetched[w].Data[f]
           /\ s[w].ResourceVersion = fetched[w].ResourceVersion

\* C15 witness: the payload was sent and accepted; the stored Secret has both
\* destinations rewritten and the sources and the unnamed field as they were read.
C15_Witness ==
    \E w \in Workers :
        /\ KeysDistinct
        /\ Returned(w)
        /\ msg[w] = LogSuccess
        /\ fetched[w].Data[certDestKey] = "K1"
        /\ fetched[w].Data[keyDestKey] = Absent
        /\ fetched[w].Data[OtherField] = "CA"
        /\ secret.Data = s[w].Data
        /\ secret.Data[certSourceKey] = "C1"
        /\ secret.Data[keySourceKey] = "K1"
        /\ secret.Data[certDestKey] = "C1"
        /\ secret.Data[keyDestKey] = "K1"
        /\ secret.Data[OtherField] = "CA"


\* Both source fields are there and a destination's bytes are not its source's:
\* the payload is one the call goes on to update.
Stale(d) == SourcesPresent(d) /\ (CertDiffers(d) \/ KeyDiffers(d))

\* The payload a call holds after its two assignments is not stale, and neither
\* is the Secret stored by a call that returned success after writing.
AssignmentsReachSteadyState(w) ==
    /\ Assigned(w) => ~Stale(s[w].Data)
    /\ (Returned(w) /\ msg[w] = LogSuccess) => (secret.exists /\ ~Stale(secret.Data))

\* C16 as stated: for every four key names, coinciding or not, and every stale
\* payload, the payload after the two assignments is not stale, and the Secret
\* a successful call leaves is not stale.
C16_AssignmentsReachSteadyState ==
    \A w \in Workers : AssignmentsReachSteadyState(w)

\* C16 amended: the same, for four pairwise distinct key names.
C16_AssignmentsReachSteadyStateDistinctKeys ==
    \A w \in Workers : KeysDistinct => AssignmentsReachSteadyState(w)

\* C16 witness: both destinations held other bytes; after the assignments the
\* payload about to be sent has each destination equal to its source.
C16_Witness ==
    \E w \in Workers :
        /\ KeysDistinct
        /\ pc[w] = "update"
        /\ fetched[w].Data[certSourceKey] = "C1"
        /\ fetched[w].Data[keySourceKey] = "K1"
        /\ fetched[w].Data[certDestKey] = "K1"
        /\ fetched[w].Data[keyDestKey] = "C1"
        /\ s[w].Data[certDestKey] = "C1"
        /\ s[w].Data[keyDestKey] = "K1"


\* C19: a call makes its two assignments only on a payload in which both source
\* fields were found, so never on a Secret without data; a call that read a
\* Secret without data returns success with "Already up-to-date" and no write.
C19_AssignsOnlyWithBothSources ==
    \A w \in Workers :
        Decided(w) =>
            LET d == fetched[w].Data
            IN  /\ WentOnToUpdate(w) =>
                      /\ d[certSourceKey] # Absent
                      /\ d[keySourceKey] # Absent
                      /\ d # EmptyData
                /\ d = EmptyData =>
                      /\ pc[w] = "done"
                      /\ writes[w] = 0
                      /\ msg[w] = LogUpToDate
                      /\ ~Failed(w)
                      /\ s[w] = fetched[w]

\* C19 witness: the stored Secret has no data; the call read it and returned
\* on the up-to-date path.
C19_Witness ==
    \E w \in Workers :
        /\ Returned(w)
        /\ secret.exists
        /\ secret.Data = EmptyData
        /\ fetched[w] = secret
        /\ reads[w] = 1
        /\ writes[w] = 0
        /\ msg[w] = LogUpToDate


\* Neither the flag nor POD_NAMESPACE names a namespace.
NoNamespace == daprTrustBundleNamespace = "" /\ podNamespace = ""
ExitedNonZero == mainPc = "exited" /\ exitCode # 0
\* No watch is established and Reconcile has not been called.
NothingStarted ==
    /\ ~watching
    /\ queue = {}
    /\ \A w \in Workers : ~Called(w) /\ reads[w] = 0 /\ writes[w] = 0

\* C13 as stated: a process given no namespace by flag or environment never
\* establishes a watch nor calls Reconcile, and exits with a non-zero status.
C13_NoNamespaceExitsNonZero ==
    /\ [](NoNamespace => NothingStarted)
    /\ NoNamespace ~> ExitedNonZero

\* C13 amended: the same for a process not asked for its version; one asked
\* for its version exits with status 0 before it looks for a namespace.
C13_NoNamespaceExitsNonZeroUnlessVersion ==
    /\ [](NoNamespace => NothingStarted)
    /\ (NoNamespace /\ ~showVersion) ~> ExitedNonZero
    /\ (NoNamespace /\ showVersion) ~> (mainPc = "exited" /\ exitCode = 0)

\* C13 witness: the process has logged the missing namespace and exited with
\* status 1; no manager, no watch, no Reconcile.
C13_Witness ==
    /\ NoNamespace
    /\ ~showVersion
    /\ mainPc = "exited"
    /\ exitCode = 1
    /\ mainLog = {LogNoNamespace}
    /\ mainErr = "nil"
    /\ NothingStarted


\* An invocation that returned an error logged the failure of the remote call
\* that produced it.
RemoteErrorsLogged ==
    \A w \in Workers :
        (Returned(w) /\ Failed(w))
        => msg[w] = IF writes[w] > 0 THEN LogUpdFailed ELSE LogGetFailed
\* The error main's variable err holds is in an entry of the log, and a process
\* that exited with a failure logged one.
SetupErrorsLogged ==
    /\ mainErr # "nil" => \E entry \in mainLog : entry.err = mainErr
    /\ ExitedNonZero => mainLog # {}

\* C12 as stated: every error of a remote read, of a remote write and of a
\* setup step of the controller is reported in a log entry before the program
\* goes on.
C12_EveryErrorIsLogged ==
    RemoteErrorsLogged /\ SetupErrorsLogged


\* C14: once main is inside mgr.Start no step changes the watched namespace and
\* name, the four key names or any other package-level variable, and every read
\* a Reconcile issues is for that one identity.
C14_ConfigurationIsImmutable ==
    /\ [][mainPc = "running" => (config' = config /\ showVersion' = showVersion)]_vars
    /\ [](\A w \in Workers : reads[w] > 0 => req[w] = WatchedIdentity)

\* C14 witness: the namespace came from POD_NAMESPACE at startup; a Reconcile
\* has read and written the Secret and the configuration is the startup one.
C14_Witness ==
    /\ watching
    /\ podNamespace = "dapr-system"
    /\ WatchedIdentity = [Namespace |-> "dapr-system", Name |-> "dapr-trust-bundle"]
    /\ KeysDistinct
    /\ Returned(1)
    /\ req[1] = WatchedIdentity
    /\ msg[1] = LogSuccess
    /\ writes[1] = 1


\* The payload d with both destination entries assigned, the certificate first.
BothAssigned(d) ==
    LET d1 == [d EXCEPT ![certDestKey] = d[certSourceKey]]
    IN  [d1 EXCEPT ![keyDestKey] = d1[keySourceKey]]

\* C18: the stored Secret changes, other clients' writes aside, only in the step
\* in which an invocation's update is accepted, and then to the payload with
\* both destination fields assigned; every other step of an invocation, failed,
\* abandoned or not, leaves the store as it is.
C18_NoPartialSideEffect ==
    [][(secret' # secret /\ externalWrites' = externalWrites)
       => \E w \in Workers :
             /\ UpdateReturns(w)
             /\ err'[w] = "nil"
             /\ secret = fetched[w]
             /\ secret'.exists
             /\ secret'.Data = BothAssigned(secret.Data)]_vars

\* C18 witness: the process was shut down with the invocation about to send
\* its update; the stored Secret is the stale one the invocation read.
C18_Witness ==
    /\ mainPc = "exited"
    /\ exitCode = 0
    /\ pc[1] = "update"
    /\ secret = fetched[1]
    /\ Stale(secret.Data)
    /\ s[1].Data # secret.Data


\* The outcome of an invocation that has returned, by what it was called for
\* and what it read.
OutcomeIsDetermined(w) ==
    /\ req[w] # WatchedIdentity
          => msg[w] = LogSkip /\ ~Failed(w) /\ reads[w] = 0 /\ writes[w] = 0
    /\ (req[w] = WatchedIdentity /\ ~fetched[w].exists)
          => msg[w] = LogGetFailed /\ Failed(w) /\ reads[w] = 1 /\ writes[w] = 0
    /\ (fetched[w].exists /\ ~Stale(fetched[w].Data))
          => msg[w] = LogUpToDate /\ ~Failed(w) /\ writes[w] = 0
    /\ (fetched[w].exists /\ Stale(fetched[w].Data))
          => /\ writes[w] = 1
             /\ \/ msg[w] = LogSuccess /\ ~Failed(w)
                \/ msg[w] = LogUpdFailed /\ Failed(w)
\* The update's return tells what became of the write: success when the store
\* took the payload, an error when it left the Secret as it was.
WriteOutcomeIsTold(w) ==
    UpdateReturns(w)
    => \/ /\ msg'[w] = LogSuccess /\ err'[w] = "nil"
          /\ secret = fetched[w]
          /\ secret'.exists /\ secret'.Data = s[w].Data
       \/ /\ msg'[w] = LogUpdFailed /\ err'[w] # "nil"
          /\ secret' = secret

\* C17: every invocation returns, unless the process is shut down first, and
\* with exactly one outcome: skipped for another identity, an error when the
\* Secret could not be read, already up-to-date without a write when it is not
\* stale, and for a stale one success when its write was accepted and an error
\* when it was not; none returns success leaving a stale Secret it read unwritten.
C17_OneOutcomePerInvocation ==
    /\ [](\A w \in Workers : Returned(w) => OutcomeIsDetermined(w))
    /\ [][\A w \in Workers : WriteOutcomeIsTold(w)]_vars
    /\ \A w \in Workers : Called(w) ~> (Returned(w) \/ mainPc = "exited")

\* C17 witness: the Secret read was stale, another client wrote between the
\* read and the update, and the invocation returned the conflict with the
\* stored Secret still stale.
C17_Witness ==
    \E w \in Workers :
        /\ watching
        /\ Returned(w)
        /\ fetched[w].exists
        /\ Stale(fetched[w].Data)
        /\ err[w] = "Conflict"
        /\ msg[w] = LogUpdFailed
        /\ externalWrites = 1
        /\ secret.exists
        /\ Stale(secret.Data)


\* From some point on the controller is watching, the Secret is there with both
\* source fields and no other client writes it.
SourcesSettle == <>[](watching /\ secret.exists /\ SourcesPresent(secret.Data))
\* From some point on no remote call fails to get through.
RemoteCallsGetThrough == <>[](\A w \in Workers : err[w] # "IOError")
\* From some point on the stored destination pair is the stored source pair.
StaysInSync == <>[](secret.exists /\ InSync(secret.Data))

====
